---- MODULE Spec2Model ----
(***************************************************************************)
(* Model of the sync loop of vibe_gh_sync.py: run_sync, the collaborators  *)
(* it calls (fetch_github_issues, fetch_vibe_tasks, create_vibe_task), the *)
(* duplicate detection it performs and the shutdown flag written by        *)
(* signal_handler.                                                         *)
(*                                                                         *)
(* Text is modelled as a sequence of tokens.  A token is one character or  *)
(* one fixed chunk of characters:                                          *)
(*   "sp"  a space               "nl"  a line break                        *)
(*   "OI:" the text  Original Issue:   (the marker is "OI:" then "sp")     *)
(*   "GH"  the text  https://github.com/                                   *)
(*   "GE"  the text  https://ghe.corp/   (an issue host other than github) *)
(*   ")"   a closing parenthesis         "a" "b" "1" "2" "3" plain letters *)
(* Positions are counted from 0, as Python counts them.                    *)
(*                                                                         *)
(* Three specifications: Spec is run_sync over the configured mappings;    *)
(* SpecRetry is run_sync over one mapping, cycle after cycle, with the     *)
(* first failed create remembered; SpecDetect is the duplicate detector    *)
(* alone, run on lists of tasks in every order.                            *)
(***************************************************************************)
EXTENDS Integers, Sequences, FiniteSets, Bags, TLC

\* ------------------------------------------------------------------------
\* Text helpers (the Python str methods the code uses)

\* Python's None for a nullable field (a reserved token that is no text).
None == <<"None">>

\* `x or ""` : None and the empty text both give the empty text.
OrEmpty(x) == IF x = None \/ x = <<>> THEN <<>> ELSE x

\* What str.strip() and the regex class \s treat as whitespace.
IsSpace(c) == c \in {"sp", "nl"}

\* s[a:b] for 0 <= a, b <= len(s).
Slice(s, a, b) == SubSeq(s, a + 1, b)

\* s.find(sub, start): the lowest position >= start where sub occurs, or -1.
Find(s, sub, start) ==
    LET hits == {i \in start..(Len(s) - Len(sub)) :
                    Slice(s, i, i + Len(sub)) = sub}
    IN  IF hits = {} THEN -1 ELSE CHOOSE i \in hits : \A j \in hits : i <= j

\* s.strip(): leading and trailing whitespace removed.
Strip(s) ==
    LET keep == {i \in 1..Len(s) : ~IsSpace(s[i])}
    IN  IF keep = {} THEN <<>>
        ELSE LET lo == CHOOSE i \in keep : \A j \in keep : i <= j
                 hi == CHOOSE i \in keep : \A j \in keep : i >= j
             IN  SubSeq(s, lo, hi)

\* The marker string "Original Issue: ".
Marker == <<"OI:", "sp">>

\* A character the class [^\s\)] accepts.
IsUrlChar(c) == ~IsSpace(c) /\ c # ")"

\* The end (exclusive, 0-based) of the longest run of URL characters that
\* starts at position i.
RECURSIVE RunEnd(_, _)
RunEnd(s, i) == IF i < Len(s) /\ IsUrlChar(s[i + 1]) THEN RunEnd(s, i + 1) ELSE i

\* re.findall(r'https://github\.com/[^\s\)]+', s): the non-overlapping
\* matches found scanning from position i, as a set.
RECURSIVE FindAllGithub(_, _)
FindAllGithub(s, i) ==
    IF i >= Len(s) THEN {}
    ELSE IF s[i + 1] = "GH" /\ RunEnd(s, i + 1) > i + 1
         THEN {Slice(s, i, RunEnd(s, i + 1))} \cup FindAllGithub(s, RunEnd(s, i + 1))
         ELSE FindAllGithub(s, i + 1)

\* ------------------------------------------------------------------------
\* Data: issues, tasks, configuration

\* Issue records as `gh issue list --json number,title,body,url` gives them.
\* I1 is an issue of another host than github.com; I2 has I1's title up to
\* surrounding whitespace, a null body and a github.com URL; I4 has I1's URL
\* under another title.
I1 == [number |-> 1, title |-> <<"a">>, body |-> <<"b">>, url |-> <<"GE", "1">>]
I2 == [number |-> 2, title |-> <<"sp", "a">>, body |-> None, url |-> <<"GH", "2">>]
I4 == [number |-> 1, title |-> <<"a", "b">>, body |-> <<>>, url |-> <<"GE", "1">>]
Issues == {I1, I2, I4}

\* The longest issue list one fetch returns.
MaxIssues == 2

\* The sync cycles (iterations of the while loop) explored.
MaxCycles == 2

\* The configured sync_interval_seconds.
SyncInterval == 2

\* The copies of one task the board is followed up to: MaxCopies stands
\* for "MaxCopies or more".
MaxCopies == 2

\* The issues gh lists, newest first; a fetch returns up to MaxIssues of
\* them in that order.
IssueOrder == <<I1, I2, I4>>
RECURSIVE SubSeqs(_)
SubSeqs(q) ==
    IF q = <<>> THEN {<<>>}
    ELSE LET rest == SubSeqs(Tail(q))
         IN  rest \cup {<<Head(q)>> \o r : r \in rest}

IssueLists == {q \in SubSeqs(IssueOrder) : Len(q) <= MaxIssues}

\* config["projects"]: lists of {github_repo, vibe_project_id} mappings.
Configs ==
    { <<>>,
      <<[github_repo |-> "o/r1", vibe_project_id |-> "p1"],
        [github_repo |-> "o/r2", vibe_project_id |-> "p1"]>> }

\* Tasks the board may hold before the first cycle: one made by hand with
\* no content, one carrying the marker and I1's URL followed by a line
\* break, and one of a project no mapping names.
LegacyTask == [title |-> <<"a">>, content |-> None, project_id |-> "p1"]
MarkedTask == [title |-> <<"2">>, project_id |-> "p1",
               content |-> <<"b", "nl", "nl", "OI:", "sp", "GE", "1", "nl">>]
OtherTask == [title |-> <<"a", "b">>, project_id |-> "p2",
              content |-> <<"OI:", "sp", "GH", "2">>]
InitBoards == {SetToBag({LegacyTask, OtherTask}), SetToBag({MarkedTask, OtherTask})}

\* ------------------------------------------------------------------------
\* The duplicate detector of run_sync

\* Format 1: the text after the first marker up to the line break, trimmed.
MarkerUrls(content) ==
    IF Find(content, Marker, 0) # -1
    THEN LET url_start == Find(content, Marker, 0) + Len(Marker)
             nl        == Find(content, <<"nl">>, url_start)
             url_end   == IF nl = -1 THEN Len(content) ELSE nl
             url       == Strip(Slice(content, url_start, url_end))
         IN  IF url # <<>> THEN {url} ELSE {}
    ELSE {}

\* Format 2: every github.com URL anywhere in the content.
GithubUrls(content) == {Strip(u) : u \in FindAllGithub(content, 0)}

\* What one task adds to existing_urls.
TaskUrls(task) ==
    LET content == OrEmpty(task.content)
    IN  MarkerUrls(content) \cup GithubUrls(content)

\* Variant of the titles of a task: the title is not looked at.
TaskTitlesNone(task) == {}

\* What one task adds to existing_titles.
TaskTitles(task) ==
    IF task.title # None /\ task.title # <<>> THEN {Strip(task.title)} ELSE {}

\* Variant of the step below: the set is assigned, not extended.
Assigned(set, more) == IF more # {} THEN more ELSE set

\* existing_urls.add(...), existing_titles.add(...) for one task.
Added(set, more) == set \cup more

\* for task in vibe_tasks: the two sets after the tasks from position k on
\* have been gone through in list order, starting from `set`.
RECURSIVE UrlsFrom(_, _, _)
UrlsFrom(tasks, k, set) ==
    IF k > Len(tasks) THEN set
    ELSE UrlsFrom(tasks, k + 1, Added(set, TaskUrls(tasks[k])))
RECURSIVE TitlesFrom(_, _, _)
TitlesFrom(tasks, k, set) ==
    IF k > Len(tasks) THEN set
    ELSE TitlesFrom(tasks, k + 1, Added(set, TaskTitles(tasks[k])))

BuildUrls(tasks) == UrlsFrom(tasks, 1, {})
BuildTitles(tasks) == TitlesFrom(tasks, 1, {})

\* Variant of the task content: a null body is not replaced by "".
TaskContentNullBody(issue) == issue.body \o <<"nl", "nl">> \o Marker \o issue.url

\* issue_body = issue["body"] or ""
\* task_content = f"{issue_body}\n\nOriginal Issue: {issue_url}"
TaskContent(issue) == OrEmpty(issue.body) \o <<"nl", "nl">> \o Marker \o issue.url

\* Variants of is_duplicate: the title alone; URL and title both required.
IsDuplicateTitleOnly(issue, urls, titles) == Strip(issue.title) \in titles
IsDuplicateBoth(issue, urls, titles) ==
    issue.url \in urls /\ Strip(issue.title) \in titles

\* is_duplicate = issue_url in existing_urls or
\*                issue_title.strip() in existing_titles
IsDuplicate(issue, urls, titles) ==
    issue.url \in urls \/ Strip(issue.title) \in titles

\* ------------------------------------------------------------------------
\* The collaborators.  Each takes what the outside world answered and gives
\* [exc, val]: the exception that leaves the function ("none" when it
\* returns) and the value returned.

Return(v) == [exc |-> "none", val |-> v]
Raise(e) == [exc |-> e, val |-> <<>>]

\* What running `gh issue list` can end in: the list printed, a non-zero
\* exit (CalledProcessError), the 60 s timeout (TimeoutExpired), output that
\* json.loads rejects (JSONDecodeError), or no gh executable to launch
\* (FileNotFoundError out of subprocess.run).
GhFailures == {"nonzero_exit", "timeout", "invalid_json", "not_launchable"}
GhOutcomes ==
    [kind : {"ok"}, issues : IssueLists]
        \cup [kind : GhFailures, issues : {<<>>}]

fetch_github_issues(out) ==
    CASE out.kind = "ok"             -> Return(out.issues)
      [] out.kind = "nonzero_exit"   -> Return(<<>>)
      [] out.kind = "timeout"        -> Return(<<>>)
      [] out.kind = "invalid_json"   -> Return(<<>>)
      [] out.kind = "not_launchable" -> Raise("FileNotFoundError")

\* What GET /api/tasks?project_id=... can end in: an HTTP response whose
\* body is the JSON envelope {success, data} (an envelope that does not say
\* success=true may lack either key), requests.Timeout, or another
\* requests.RequestException.  `data` is the list the board would send.
NoResp == [kind |-> "none"]
TaskResponses(data) ==
    [kind : {"http"}, status : {200}, success : {"true"}, has_data : {TRUE},
     data : {data}]
        \cup [kind : {"http"}, status : {200}, success : {"false", "absent"},
              has_data : BOOLEAN, data : {data}]
        \cup [kind : {"http"}, status : {201, 404, 500}, success : {"absent"},
              has_data : {FALSE}, data : {data}]
        \cup [kind : {"timeout", "conn_error"}, data : {data}]

\* Variants of fetch_vibe_tasks: an HTTP error status raised to the caller;
\* the envelope's success key not looked at.
fetch_vibe_tasks_raise_for_status(resp) ==
    IF resp.kind = "http"
    THEN IF resp.status = 200
         THEN IF resp.success = "true"
              THEN Return(IF resp.has_data THEN resp.data ELSE <<>>)
              ELSE Return(<<>>)
         ELSE Raise("HTTPError")
    ELSE Return(<<>>)
fetch_vibe_tasks_ignore_success(resp) ==
    IF resp.kind = "http" /\ resp.status = 200 /\ resp.has_data
    THEN Return(resp.data) ELSE Return(<<>>)

\* fetch_vibe_tasks as written.
fetch_vibe_tasks(resp) ==
    IF resp.kind = "http"
    THEN IF resp.status = 200
         THEN IF resp.success = "true"
              THEN Return(IF resp.has_data THEN resp.data ELSE <<>>)
              ELSE Return(<<>>)
         ELSE Return(<<>>)
    ELSE Return(<<>>)

\* What POST /api/tasks can end in.  `stored` says whether the board kept
\* the task: it does when it answers 200, 201 or 204, it does not when it
\* answers an error or cannot be reached, and a request that timed out on
\* the client may or may not have been carried out.
CreateResponses ==
    [kind : {"http"}, status : {200, 201, 204}, stored : {TRUE}]
        \cup [kind : {"http"}, status : {400, 500}, stored : {FALSE}]
        \cup [kind : {"timeout"}, stored : BOOLEAN]
        \cup [kind : {"conn_error"}, stored : {FALSE}]

\* Variant of create_vibe_task: the statuses delete_task accepts.
create_vibe_task_200_204(resp) ==
    IF resp.kind = "http" THEN Return(resp.status \in {200, 204})
    ELSE Return(FALSE)

\* create_vibe_task as written: True for status 200 or 201, False for any
\* other status, for requests.Timeout and for any other RequestException.
create_vibe_task(resp) ==
    CASE resp.kind = "http"       -> Return(resp.status \in {200, 201})
      [] resp.kind = "timeout"    -> Return(FALSE)
      [] resp.kind = "conn_error" -> Return(FALSE)

\* The HTTP requests the collaborators send to the board.
NoRequest == [method |-> "none"]

\* Variant of the task query: no project_id parameter.
TasksRequestUnscoped(project_id) ==
    [method |-> "GET", path |-> "/api/tasks", params |-> <<>>]

\* requests.get(f"{api_url}/api/tasks", params={"project_id": project_id})
TasksRequest(project_id) ==
    [method |-> "GET", path |-> "/api/tasks",
     params |-> [project_id |-> project_id]]

\* payload = {"title": title, "project_id": project_id, "content": content}
Payload(project_id, title, content) ==
    [title |-> title, project_id |-> project_id, content |-> content]

\* Variant of the create request: the task is written with PUT.
CreateRequestAsPut(project_id, title, content) ==
    [method |-> "PUT", path |-> "/api/tasks",
     json |-> Payload(project_id, title, content)]

\* requests.post(f"{api_url}/api/tasks", json=payload)
CreateRequest(project_id, title, content) ==
    [method |-> "POST", path |-> "/api/tasks",
     json |-> Payload(project_id, title, content)]

\* ------------------------------------------------------------------------
\* State

VARIABLES
    pc,                 \* where run_sync is
    shutdown_requested, \* the module-level flag
    projects,           \* config["projects"]
    sync_interval,      \* config["sync_interval_seconds"]
    once,               \* run_sync's parameter
    m,                  \* position of the for loop over projects (from 1)
    gh_issues,          \* result of fetch_github_issues
    vibe_tasks,         \* result of fetch_vibe_tasks
    existing_urls,
    existing_titles,
    idx,                \* position of the for loop over gh_issues (from 1)
    t,                  \* position of the for loop over range(sync_interval)
    request,            \* the HTTP request under way, if any
    board,              \* the tasks the board service holds (a bag)
    \* history, read by the properties only
    cycle,              \* iterations of the while loop entered
    passes,             \* the mappings started, in order, as positions
    n_ticks,            \* calls of time.sleep(1) made
    pass_log,           \* the issues handled in the current mapping pass
    cycle_created,      \* the issues created with success in the current cycle
    sig,                \* where the shutdown request arrived, and what ran after
    gh_outcome,         \* what the last fetch_github_issues met
    task_resp,          \* what the last fetch_vibe_tasks met
    task_fetch_failed,  \* whether that was anything but 200 with success=true
    create_resp,        \* what the last create_vibe_task met
    calls,              \* the collaborator calls of the current mapping pass
    first_failed,       \* the first create that failed and left no task
    last_pass,          \* the mapping pass completed last
    \* the detector run on its own
    task_orders,        \* the task lists the detector is run on, one per run
    verdicts,           \* is_duplicate of every issue, one list per run done
    dry                 \* what dry_run fetched and listed

vars == <<pc, shutdown_requested, projects, sync_interval, once, m, gh_issues,
          vibe_tasks, existing_urls, existing_titles, idx, t, board, cycle,
          passes, n_ticks, pass_log, cycle_created, sig, gh_outcome, task_resp,
          task_fetch_failed, request, create_resp, calls, first_failed,
          last_pass, task_orders, verdicts, dry>>

config_vars == <<projects, sync_interval, once>>
loop_vars == <<m, gh_issues, vibe_tasks, existing_urls, existing_titles, idx, t,
               request>>
detect_vars == <<task_orders, verdicts, dry>>
hist_vars == <<cycle, passes, n_ticks, pass_log, cycle_created, gh_outcome,
               task_resp, task_fetch_failed, create_resp, calls, first_failed, last_pass>>

NoSig == [at |-> "none", cycle |-> 0, mappings |-> 0, ticks_begun |-> 0,
          ticks_ended |-> 0]

\* Where run_sync is, as far as a shutdown request is concerned: between
\* the flag check and the start of a mapping ("log_sync") or of a sleep tick
\* ("sleep_call"), inside a call under way ("fetch", "create"), between
\* two issues ("issues"), asleep ("sleep") or at one of the loop heads.
Phase(p) ==
    CASE p = "log_sync" -> "log_sync"
      [] p \in {"fetching_issues", "fetching_tasks"} -> "fetch"
      [] p = "creating" -> "create"
      [] p = "issue_loop" -> "issues"
      [] p = "sleep_call" -> "sleep_call"
      [] p \in {"sleep_check", "sleeping"} -> "sleep"
      [] OTHER -> "head"

\* The board with one more copy of a task.
Store(b, task) ==
    IF CopiesIn(task, b) < MaxCopies THEN b (+) SetToBag({task}) ELSE b

\* A list of the copies of the tasks in S, as the board holds them.
RECURSIVE ListOf(_, _)
ListOf(b, S) ==
    IF S = {} THEN <<>>
    ELSE LET task == CHOOSE x \in S : TRUE
         IN  [i \in 1..CopiesIn(task, b) |-> task] \o ListOf(b, S \ {task})

\* GET /api/tasks?project_id=...: the tasks of one project.
ProjectTasks(b, project_id) ==
    ListOf(b, {task \in BagToSet(b) : task.project_id = project_id})

\* What the board sends for a task query: the tasks of the project the
\* query names, every task when it names none.
BoardGet(b, req) ==
    IF "project_id" \in DOMAIN req.params
    THEN ProjectTasks(b, req.params.project_id)
    ELSE ListOf(b, BagToSet(b))

\* The task the board keeps for a create request.
BoardPost(b, req) ==
    Store(b, [title |-> req.json.title, content |-> req.json.content,
              project_id |-> req.json.project_id])

\* One collaborator call in `calls`: the function, its argument (a
\* repository, a project, a position of gh_issues), the mapping that made
\* it and whether it has returned.
Call(fn, arg) == [fn |-> fn, arg |-> arg, mapping |-> m, returned |-> FALSE]
Returned(cs) == [cs EXCEPT ![Len(cs)].returned = TRUE]

\* dry_run has not run.
NoDryRun == [issues |-> <<>>, tasks |-> <<>>, new_issues |-> <<>>]

\* No create has failed so far.
NoFailure ==
    [issue |-> [number |-> 0, title |-> <<>>, body |-> <<>>, url |-> <<>>],
     mapping |-> 0, cycle |-> 0]

\* No mapping pass has been completed so far.
NoPass == [done |-> FALSE, issues |-> <<>>, clean |-> FALSE]

\* for ... in ...: the loop position moves to the next element.
Stay(i) == i
Advance(i) == i + 1

vibe_proj_id == projects[m].vibe_project_id

\* run_sync after its preamble (handlers installed, configuration read).
Init ==
    /\ pc = "while"
    /\ shutdown_requested = FALSE
    /\ projects \in Configs
    /\ once \in BOOLEAN
    /\ sync_interval = SyncInterval
    /\ m = 1
    /\ gh_issues = <<>>
    /\ vibe_tasks = <<>>
    /\ existing_urls = {}
    /\ existing_titles = {}
    /\ idx = 1
    /\ t = 0
    /\ board \in InitBoards
    /\ cycle = 0
    /\ passes = <<>>
    /\ n_ticks = 0
    /\ pass_log = <<>>
    /\ cycle_created = {}
    /\ sig = NoSig
    /\ gh_outcome = NoResp
    /\ task_resp = NoResp
    /\ task_fetch_failed = FALSE
    /\ request = NoRequest
    /\ create_resp = NoResp
    /\ calls = <<>>
    /\ first_failed = NoFailure
    /\ last_pass = NoPass
    /\ task_orders = <<>>
    /\ verdicts = <<>>
    /\ dry = NoDryRun

\* ------------------------------------------------------------------------
\* Actions

\* SIGINT or SIGTERM delivered while run_sync runs.
signal_handler ==
    /\ pc \notin {"done", "raised"}
    /\ ~shutdown_requested
    /\ shutdown_requested' = TRUE
    /\ sig' = [NoSig EXCEPT !.at = Phase(pc), !.cycle = cycle]
    /\ UNCHANGED <<pc, board, config_vars, detect_vars, loop_vars, hist_vars>>

\* Variant of a stop test: the flag is not looked at.
NeverStop == FALSE

\* The flag as the three places of the loop read it.
WhileStop == shutdown_requested
ForBreak == shutdown_requested
SleepBreak == shutdown_requested

\* if once: break
OnceBreak == once

\* while not shutdown_requested:
WhileTest ==
    /\ pc = "while"
    /\ IF WhileStop
       THEN pc' = "done" /\ UNCHANGED <<m, cycle>>
       ELSE /\ cycle < MaxCycles
            /\ pc' = "for"
            /\ m' = 1
            /\ cycle' = cycle + 1
    /\ UNCHANGED <<shutdown_requested, config_vars, detect_vars, gh_issues, vibe_tasks,
                   existing_urls, existing_titles, idx, t, board, passes, n_ticks,
                   pass_log, cycle_created, sig, gh_outcome, task_resp,
                   task_fetch_failed, request, create_resp, calls, first_failed, last_pass>>

\* for project in config.get("projects", []): if shutdown_requested: break
\* Here the names of the pass before (gh_issues, vibe_tasks, the two sets)
\* are dead: each is assigned again before it is next read, so they are set
\* back to their initial values.
ForTest ==
    /\ pc = "for"
    /\ IF m > Len(projects) THEN pc' = "after_for"
       ELSE IF ForBreak THEN pc' = "after_for"
       ELSE pc' = "log_sync"
    /\ gh_issues' = <<>>
    /\ vibe_tasks' = <<>>
    /\ existing_urls' = {}
    /\ existing_titles' = {}
    /\ idx' = 1
    /\ pass_log' = <<>>
    /\ task_fetch_failed' = FALSE
    /\ calls' = <<>>
    /\ UNCHANGED <<shutdown_requested, board, sig, config_vars, detect_vars, m, t, cycle,
                   passes, n_ticks, cycle_created, gh_outcome, task_resp,
                   request, create_resp, first_failed, last_pass>>

\* The mapping is read and logged, and fetch_github_issues is called.
StartMapping ==
    /\ pc = "log_sync"
    /\ pc' = "fetching_issues"
    /\ passes' = Append(passes, m)
    /\ sig' = IF shutdown_requested
              THEN [sig EXCEPT !.mappings = @ + 1] ELSE sig
    /\ calls' = <<Call("fetch_github_issues", projects[m].github_repo)>>
    /\ UNCHANGED <<shutdown_requested, board, config_vars, detect_vars, loop_vars, cycle,
                   n_ticks, pass_log, cycle_created, gh_outcome, task_resp,
                   task_fetch_failed, create_resp, first_failed, last_pass>>

\* fetch_github_issues returns or raises; on return fetch_vibe_tasks is called.
FetchIssuesReturn ==
    /\ pc = "fetching_issues"
    /\ \E out \in GhOutcomes :
         LET r == fetch_github_issues(out)
         IN  /\ gh_outcome' = out
             /\ IF r.exc # "none"
                THEN pc' = "raised" /\ UNCHANGED <<gh_issues, request, calls>>
                ELSE /\ pc' = "fetching_tasks"
                     /\ gh_issues' = r.val
                     /\ request' = TasksRequest(vibe_proj_id)
                     /\ calls' = Append(Returned(calls),
                                        Call("fetch_vibe_tasks", vibe_proj_id))
    /\ UNCHANGED <<shutdown_requested, board, sig, config_vars, detect_vars, m, vibe_tasks,
                   existing_urls, existing_titles, idx, t, cycle, passes, n_ticks,
                   pass_log, cycle_created, task_resp, task_fetch_failed,
                   create_resp, first_failed, last_pass>>

\* fetch_vibe_tasks returns and the two lookup sets are built from its result.
FetchTasksReturn ==
    /\ pc = "fetching_tasks"
    /\ \E resp \in TaskResponses(BoardGet(board, request)) :
         LET r == fetch_vibe_tasks(resp)
         IN  /\ task_resp' = resp
             /\ task_fetch_failed' =
                  ~(resp.kind = "http" /\ resp.status = 200 /\ resp.success = "true")
             /\ IF r.exc # "none"
                THEN /\ pc' = "raised"
                     /\ UNCHANGED <<vibe_tasks, existing_urls, existing_titles, idx,
                                    request, calls>>
                ELSE /\ pc' = "issue_loop"
                     /\ vibe_tasks' = r.val
                     /\ existing_urls' = BuildUrls(r.val)
                     /\ existing_titles' = BuildTitles(r.val)
                     /\ idx' = 1
                     /\ request' = NoRequest
                     /\ calls' = Returned(calls)
    /\ gh_outcome' = NoResp
    /\ UNCHANGED <<shutdown_requested, board, sig, config_vars, detect_vars, m, gh_issues, t,
                   cycle, passes, n_ticks, pass_log, cycle_created, create_resp,
                   first_failed, last_pass>>

\* Variant of the issue loop's end: it also ends when the flag is set.
IssueLoopDoneOrStop == idx > Len(gh_issues) \/ shutdown_requested

\* for issue in gh_issues: the list is walked to its end; the flag is not
\* read.
IssueLoopDone == idx > Len(gh_issues)

\* One turn of `for issue in gh_issues`: the loop ends, or the issue is
\* classified and, when it is no duplicate, create_vibe_task is called.
\* With `remember`, the pass that ends is kept in last_pass: its issue list
\* and whether fetch_vibe_tasks got the tasks and every create succeeded.
IssueLoops(remember) ==
    /\ pc = "issue_loop"
    /\ task_resp' = NoResp
    /\ create_resp' = NoResp
    /\ IF IssueLoopDone
       THEN /\ pc' = "for"
            /\ m' = Advance(m)
            /\ UNCHANGED <<idx, pass_log, request, calls>>
       ELSE IF IsDuplicate(gh_issues[idx], existing_urls, existing_titles)
       THEN /\ pc' = "issue_loop"
            /\ idx' = Advance(idx)
            /\ pass_log' = Append(pass_log,
                 [issue |-> gh_issues[idx], called |-> FALSE, ok |-> FALSE])
            /\ UNCHANGED <<m, request, calls>>
       ELSE /\ pc' = "creating"
            /\ request' = CreateRequest(vibe_proj_id, gh_issues[idx].title,
                                        TaskContent(gh_issues[idx]))
            /\ calls' = Append(calls, Call("create_vibe_task", idx))
            /\ UNCHANGED <<m, idx, pass_log>>
    /\ UNCHANGED <<shutdown_requested, board, sig, config_vars, detect_vars, gh_issues,
                   vibe_tasks, existing_urls, existing_titles, t, cycle, passes,
                   n_ticks, cycle_created, gh_outcome, task_fetch_failed,
                   first_failed>>
    /\ last_pass' =
         IF remember /\ IssueLoopDone
         THEN [done |-> TRUE, issues |-> gh_issues,
               clean |-> /\ ~task_fetch_failed
                         /\ \A i \in 1..Len(pass_log) :
                              pass_log[i].called => pass_log[i].ok]
         ELSE last_pass

IssueLoop == IssueLoops(FALSE)
IssueLoopRemembered == IssueLoops(TRUE)

\* Variants of the tracking below: a created task is not remembered; an
\* issue is remembered whether or not its create succeeded.
TrackNothing(set, x, success) == set
TrackAlways(set, x, success) == set \cup {x}

\* if success: existing_urls.add(issue_url); existing_titles.add(...)
TrackCreated(set, x, success) == IF success THEN set \cup {x} ELSE set

\* create_vibe_task returns; the board has stored the task or not.  With
\* `remember`, the first create that fails and leaves no task is kept in
\* first_failed.
CreateReturns(remember) ==
    /\ pc = "creating"
    /\ \E resp \in CreateResponses :
         LET issue == gh_issues[idx]
             r == create_vibe_task(resp)
             success == r.val
         IN  /\ board' = IF resp.stored THEN BoardPost(board, request) ELSE board
             /\ create_resp' = resp
             /\ IF r.exc # "none"
                THEN /\ pc' = "raised"
                     /\ UNCHANGED <<existing_urls, existing_titles, pass_log,
                                    cycle_created, idx, request, calls,
                                    first_failed>>
                ELSE /\ pc' = "issue_loop"
                     /\ existing_urls' =
                          TrackCreated(existing_urls, issue.url, success)
                     /\ existing_titles' =
                          TrackCreated(existing_titles, Strip(issue.title), success)
                     /\ pass_log' = Append(pass_log,
                          [issue |-> issue, called |-> TRUE, ok |-> success])
                     /\ cycle_created' = IF success THEN cycle_created \cup {issue}
                                         ELSE cycle_created
                     /\ idx' = Advance(idx)
                     /\ request' = NoRequest
                     /\ calls' = Returned(calls)
                     /\ first_failed' =
                          IF remember /\ ~success /\ ~resp.stored
                             /\ first_failed = NoFailure
                          THEN [issue |-> issue, mapping |-> m, cycle |-> cycle]
                          ELSE first_failed
    /\ UNCHANGED <<shutdown_requested, sig, config_vars, detect_vars, m, gh_issues, vibe_tasks,
                   t, cycle, passes, n_ticks, gh_outcome, task_resp,
                   task_fetch_failed, last_pass>>

CreateReturn == CreateReturns(FALSE)
CreateReturnRemembered == CreateReturns(TRUE)

\* if once: break;  if not shutdown_requested: ... for _ in range(sync_interval)
AfterFor ==
    /\ pc = "after_for"
    /\ IF OnceBreak THEN pc' = "done" /\ UNCHANGED t
       ELSE IF shutdown_requested THEN pc' = "while" /\ UNCHANGED t
       ELSE pc' = "sleep_check" /\ t' = 0
    /\ cycle_created' = {}
    /\ UNCHANGED <<shutdown_requested, board, sig, config_vars, detect_vars, m, gh_issues,
                   vibe_tasks, existing_urls, existing_titles, idx, cycle, passes,
                   n_ticks, pass_log, gh_outcome, task_resp, task_fetch_failed,
                   request, create_resp, calls, first_failed, last_pass>>

\* for _ in range(sync_interval): if shutdown_requested: break
SleepCheck ==
    /\ pc = "sleep_check"
    /\ IF t >= sync_interval THEN pc' = "while"
       ELSE IF SleepBreak THEN pc' = "while"
       ELSE pc' = "sleep_call"
    /\ UNCHANGED <<shutdown_requested, board, sig, config_vars, detect_vars,
                   loop_vars, hist_vars>>

\* time.sleep(1) is called.
SleepBegin ==
    /\ pc = "sleep_call"
    /\ pc' = "sleeping"
    /\ n_ticks' = n_ticks + 1
    /\ sig' = IF shutdown_requested
              THEN [sig EXCEPT !.ticks_begun = @ + 1] ELSE sig
    /\ UNCHANGED <<shutdown_requested, board, config_vars, detect_vars, loop_vars, cycle,
                   passes, pass_log, cycle_created, gh_outcome, task_resp,
                   task_fetch_failed, create_resp, calls, first_failed, last_pass>>

\* time.sleep(1) returns (a signal handled meanwhile does not cut it short).
SleepEnd ==
    /\ pc = "sleeping"
    /\ pc' = "sleep_check"
    /\ t' = t + 1
    /\ sig' = IF shutdown_requested
              THEN [sig EXCEPT !.ticks_ended = @ + 1] ELSE sig
    /\ UNCHANGED <<shutdown_requested, board, config_vars, detect_vars, m, gh_issues,
                   vibe_tasks, existing_urls, existing_titles, idx, request,
                   hist_vars>>

Next ==
    \/ signal_handler
    \/ WhileTest
    \/ ForTest
    \/ StartMapping
    \/ FetchIssuesReturn
    \/ FetchTasksReturn
    \/ IssueLoop
    \/ CreateReturn
    \/ AfterFor
    \/ SleepCheck
    \/ SleepBegin
    \/ SleepEnd

Spec == Init /\ [][Next]_vars

\* The steps of run_sync itself: every action but the arrival of a signal.
Step ==
    \/ WhileTest
    \/ ForTest
    \/ StartMapping
    \/ FetchIssuesReturn
    \/ FetchTasksReturn
    \/ IssueLoop
    \/ CreateReturn
    \/ AfterFor
    \/ SleepCheck
    \/ SleepBegin
    \/ SleepEnd

\* run_sync over a single mapping, without --once, the first failed create
\* remembered: the runs in which one mapping is synced cycle after cycle.
OneMapping == <<[github_repo |-> "o/r1", vibe_project_id |-> "p1"]>>

InitRetry ==
    /\ pc = "while"
    /\ shutdown_requested = FALSE
    /\ projects = OneMapping
    /\ once = FALSE
    /\ sync_interval = SyncInterval
    /\ m = 1
    /\ gh_issues = <<>>
    /\ vibe_tasks = <<>>
    /\ existing_urls = {}
    /\ existing_titles = {}
    /\ idx = 1
    /\ t = 0
    /\ board \in InitBoards
    /\ cycle = 0
    /\ passes = <<>>
    /\ n_ticks = 0
    /\ pass_log = <<>>
    /\ cycle_created = {}
    /\ sig = NoSig
    /\ gh_outcome = NoResp
    /\ task_resp = NoResp
    /\ task_fetch_failed = FALSE
    /\ request = NoRequest
    /\ create_resp = NoResp
    /\ calls = <<>>
    /\ first_failed = NoFailure
    /\ last_pass = NoPass
    /\ task_orders = <<>>
    /\ verdicts = <<>>
    /\ dry = NoDryRun

NextRetry ==
    \/ signal_handler
    \/ WhileTest
    \/ ForTest
    \/ StartMapping
    \/ FetchIssuesReturn
    \/ FetchTasksReturn
    \/ IssueLoop
    \/ CreateReturnRemembered
    \/ AfterFor
    \/ SleepCheck
    \/ SleepBegin
    \/ SleepEnd

SpecRetry == InitRetry /\ [][NextRetry]_vars

\* run_sync over a single mapping, without --once, every completed pass
\* remembered: the runs in which a pass follows a pass over the same mapping.
NextTwice ==
    \/ signal_handler
    \/ WhileTest
    \/ ForTest
    \/ StartMapping
    \/ FetchIssuesReturn
    \/ FetchTasksReturn
    \/ IssueLoopRemembered
    \/ CreateReturn
    \/ AfterFor
    \/ SleepCheck
    \/ SleepBegin
    \/ SleepEnd

SpecTwice == InitRetry /\ [][NextTwice]_vars

\* Where run_sync has a step to take: it has not returned or raised, and the
\* loop head is either about to leave the loop or below the bound on cycles.
\* This is ENABLED <<Step>>_vars read off the guards of the actions.
StepEnabled ==
    /\ pc \notin {"done", "raised"}
    /\ (pc = "while" /\ ~WhileStop) => cycle < MaxCycles

\* run_sync with the interpreter going on to the next statement and every
\* call under way (a fetch, a create, a sleep) coming back: weak fairness of
\* Step, WF_vars(Step), with its enabling condition written out as
\* StepEnabled.  The arrival of a signal is under no such obligation.  The
\* runs are those over a single mapping without --once.
SpecLive ==
    /\ InitRetry
    /\ [][Next]_vars
    /\ ([]<>(~StepEnabled) \/ []<><<Step>>_vars)

\* ------------------------------------------------------------------------
\* The duplicate detector on its own: the two sets are built from a list of
\* tasks and every issue of a list is classified (run_sync lines 519-559,
\* dry_run lines 813-844), once for each order of the tasks in task_orders.

\* Tasks of the mapped project as a fetch may return them: the marker and a
\* URL of another host; what run_sync writes for an issue whose body is
\* the text "Original Issue: a"; no content; a github.com URL in running
\* text, closed by a parenthesis, and no marker; a URL of another host and
\* no marker, under an empty title; the marker, spaces, a github.com URL, a
\* space and a second line.
D1 == MarkedTask
D2 == [title |-> <<"b">>, project_id |-> "p1",
       content |-> <<"OI:", "sp", "a", "nl", "nl", "OI:", "sp", "GE", "1">>]
D3 == LegacyTask
D4 == [title |-> <<"b", "sp">>, project_id |-> "p1",
       content |-> <<"a", "sp", "GH", "2", ")", "sp", "b">>]
D5 == [title |-> <<>>, project_id |-> "p1", content |-> <<"GE", "1">>]
D6 == [title |-> <<"a", "b">>, project_id |-> "p1",
       content |-> <<"OI:", "sp", "sp", "GH", "2", "sp", "nl", "b">>]
DetectTasks == {D1, D2, D3, D4, D5, D6}

\* The longest task list the detector is run on.
MaxTasks == 2

\* The lists of different elements of S, up to length n.
ListsOf(S, n) ==
    UNION {{q \in [1..k -> S] : \A i \in 1..k : \A j \in 1..k :
                                   q[i] = q[j] => i = j} : k \in 0..n}

\* The orders a list can be put in.
Orders(q) == {p \in ListsOf({q[i] : i \in 1..Len(q)}, Len(q)) : Len(p) = Len(q)}

InitDetect ==
    /\ pc = "build_sets"
    /\ gh_issues \in IssueLists
    /\ task_orders \in {<<q, p>> : q \in ListsOf(DetectTasks, MaxTasks),
                                   p \in ListsOf(DetectTasks, MaxTasks)}
    /\ task_orders[2] \in Orders(task_orders[1])
    /\ verdicts = <<>>
    /\ dry = NoDryRun
    /\ shutdown_requested = FALSE
    /\ projects = OneMapping
    /\ once = TRUE
    /\ sync_interval = SyncInterval
    /\ m = 1
    /\ vibe_tasks = <<>>
    /\ existing_urls = {}
    /\ existing_titles = {}
    /\ idx = 1
    /\ t = 0
    /\ board = EmptyBag
    /\ cycle = 0
    /\ passes = <<>>
    /\ n_ticks = 0
    /\ pass_log = <<>>
    /\ cycle_created = {}
    /\ sig = NoSig
    /\ gh_outcome = NoResp
    /\ task_resp = NoResp
    /\ task_fetch_failed = FALSE
    /\ request = NoRequest
    /\ create_resp = NoResp
    /\ calls = <<>>
    /\ first_failed = NoFailure
    /\ last_pass = NoPass

run_vars == <<shutdown_requested, config_vars, m, t, request, board, sig, cycle,
              passes, n_ticks, cycle_created, gh_outcome, task_resp,
              task_fetch_failed, create_resp, calls, first_failed, last_pass>>

\* existing_urls = set(); existing_titles = set(); for task in vibe_tasks: ...
BuildSets ==
    /\ pc = "build_sets"
    /\ pc' = "classify"
    /\ vibe_tasks' = task_orders[Len(verdicts) + 1]
    /\ existing_urls' = BuildUrls(vibe_tasks')
    /\ existing_titles' = BuildTitles(vibe_tasks')
    /\ idx' = 1
    /\ pass_log' = <<>>
    /\ UNCHANGED <<gh_issues, detect_vars, run_vars>>

\* One turn of `for issue in gh_issues`: is_duplicate is computed; no task
\* is created and neither set is changed.
Classify ==
    /\ pc = "classify"
    /\ idx <= Len(gh_issues)
    /\ pass_log' = Append(pass_log,
         [issue |-> gh_issues[idx], ok |-> FALSE,
          called |-> ~IsDuplicate(gh_issues[idx], existing_urls, existing_titles)])
    /\ idx' = Advance(idx)
    /\ UNCHANGED <<pc, gh_issues, vibe_tasks, existing_urls, existing_titles,
                   detect_vars, run_vars>>

\* The issue list is exhausted: the run's classification is kept, and the
\* detector is run on the next order of the tasks, if any.
ClassifyDone ==
    /\ pc = "classify"
    /\ idx > Len(gh_issues)
    /\ verdicts' = Append(verdicts,
                          [i \in 1..Len(pass_log) |-> ~pass_log[i].called])
    /\ pc' = IF Len(verdicts') < Len(task_orders) THEN "build_sets"
             ELSE "classified"
    /\ UNCHANGED <<gh_issues, vibe_tasks, existing_urls, existing_titles, idx,
                   pass_log, task_orders, dry, run_vars>>

NextDetect ==
    \/ BuildSets
    \/ Classify
    \/ ClassifyDone

SpecDetect == InitDetect /\ [][NextDetect]_vars

\* ------------------------------------------------------------------------
\* `vibe-sync --dry-run` followed by `vibe-sync --once` over one mapping,
\* no shutdown requested: dry_run fetches and lists, then run_sync makes
\* its pass against the board dry_run left.

\* new_issues of dry_run: the issues that are no duplicate against the two
\* sets built from the fetched tasks.
NewIssues(issues, urls, titles) ==
    SelectSeq(issues, LAMBDA issue : ~IsDuplicate(issue, urls, titles))

\* A board with no task of the mapped project, and the two of Init.
DryRunBoards == InitBoards \cup {SetToBag({OtherTask})}

InitDryRun ==
    /\ pc = "dry_fetching_issues"
    /\ board \in DryRunBoards
    /\ projects = OneMapping
    /\ once = TRUE
    /\ dry = NoDryRun
    /\ task_orders = <<>>
    /\ verdicts = <<>>
    /\ shutdown_requested = FALSE
    /\ sync_interval = SyncInterval
    /\ m = 1
    /\ gh_issues = <<>>
    /\ vibe_tasks = <<>>
    /\ existing_urls = {}
    /\ existing_titles = {}
    /\ idx = 1
    /\ t = 0
    /\ cycle = 0
    /\ passes = <<>>
    /\ n_ticks = 0
    /\ pass_log = <<>>
    /\ cycle_created = {}
    /\ sig = NoSig
    /\ gh_outcome = NoResp
    /\ task_resp = NoResp
    /\ task_fetch_failed = FALSE
    /\ request = NoRequest
    /\ create_resp = NoResp
    /\ calls = <<>>
    /\ first_failed = NoFailure
    /\ last_pass = NoPass

dry_frame == <<shutdown_requested, config_vars, m, t, board, sig, vibe_tasks,
               existing_urls, existing_titles, idx, task_orders, verdicts,
               hist_vars>>

\* dry_run: fetch_github_issues returns or raises; on return fetch_vibe_tasks
\* is called.
DryFetchIssuesReturn ==
    /\ pc = "dry_fetching_issues"
    /\ \E out \in GhOutcomes :
         LET r == fetch_github_issues(out)
         IN  IF r.exc # "none"
             THEN pc' = "raised" /\ UNCHANGED <<gh_issues, request>>
             ELSE /\ pc' = "dry_fetching_tasks"
                  /\ gh_issues' = r.val
                  /\ request' = TasksRequest(vibe_proj_id)
    /\ UNCHANGED <<dry, dry_frame>>

\* dry_run: fetch_vibe_tasks returns, the two sets are built, new_issues is
\* collected and printed, and dry_run returns.
DryFetchTasksReturn ==
    /\ pc = "dry_fetching_tasks"
    /\ \E resp \in TaskResponses(BoardGet(board, request)) :
         LET tasks == fetch_vibe_tasks(resp).val
         IN  dry' = [issues |-> gh_issues, tasks |-> tasks,
                     new_issues |-> NewIssues(gh_issues, BuildUrls(tasks),
                                              BuildTitles(tasks))]
    /\ request' = NoRequest
    /\ gh_issues' = <<>>
    /\ pc' = "while"
    /\ UNCHANGED dry_frame

NextDryRun ==
    \/ DryFetchIssuesReturn
    \/ DryFetchTasksReturn
    \/ WhileTest
    \/ ForTest
    \/ StartMapping
    \/ FetchIssuesReturn
    \/ FetchTasksReturn
    \/ IssueLoop
    \/ CreateReturn
    \/ AfterFor

SpecDryRun == InitDryRun /\ [][NextDryRun]_vars

\* ------------------------------------------------------------------------
\* Properties

\* The issue create_vibe_task is or would be called for.
Cur == gh_issues[idx]

SameUrlOrTitle(x, y) == x.url = y.url \/ Strip(x.title) = Strip(y.title)

\* The issues of the current pass created with success before the i-th.
CreatedBefore(i) ==
    {pass_log[j].issue : j \in {k \in 1..Len(pass_log) : k < i /\ pass_log[k].ok}}

\* The two sets as the claim describes them when the i-th issue is handled:
\* from the tasks fetched, plus the tasks created earlier in the pass.
UrlsAt(i) == BuildUrls(vibe_tasks) \cup {x.url : x \in CreatedBefore(i)}
TitlesAt(i) == BuildTitles(vibe_tasks) \cup {Strip(x.title) : x \in CreatedBefore(i)}
NewAt(x, i) == ~(x.url \in UrlsAt(i) \/ Strip(x.title) \in TitlesAt(i))

\* C1: every issue handled in a mapping pass gets a create_vibe_task call if
\* and only if, when it is handled, its URL is not in the URL set and its
\* trimmed title is not in the title set, the sets being those of the tasks
\* fetched plus the tasks created with success earlier in the pass.
C1_CreateIffNotDuplicate ==
    /\ \A i \in 1..Len(pass_log) :
         /\ pass_log[i].issue = gh_issues[i]
         /\ pass_log[i].called <=> NewAt(gh_issues[i], i)
    /\ pc = "creating" => NewAt(Cur, idx)

\* C1 witness: a pass over fetched tasks in which the first issue was skipped
\* and the second created.
C1_Witness ==
    /\ pc = "for" /\ Len(pass_log) = 2 /\ vibe_tasks # <<>>
    /\ ~pass_log[1].called
    /\ pass_log[2].called /\ pass_log[2].ok

\* C2 as stated: within one cycle, once a task was created for issue X, no
\* later issue of the cycle with X's URL or X's trimmed title gets a
\* create_vibe_task call.
C2_NoRepeatInCycle ==
    pc = "creating" => \A x \in cycle_created : ~SameUrlOrTitle(x, Cur)

\* C2 amended: within one mapping pass, once a task was created for issue X,
\* no later issue of that pass with X's URL or X's trimmed title gets a
\* create_vibe_task call; X's URL and title are in the two sets from the
\* moment the create returns.
C2_NoRepeatInPass ==
    /\ \A i \in 1..Len(pass_log) : \A j \in 1..Len(pass_log) :
         (i < j /\ pass_log[i].ok
            /\ SameUrlOrTitle(pass_log[i].issue, pass_log[j].issue))
         => ~pass_log[j].called
    /\ \A i \in 1..Len(pass_log) :
         pass_log[i].ok =>
           /\ pc = "creating" => ~SameUrlOrTitle(pass_log[i].issue, Cur)
           /\ pass_log[i].issue.url \in existing_urls
           /\ Strip(pass_log[i].issue.title) \in existing_titles

\* C2 witness: the task fetch failed, the first issue was created and the
\* second, with the same trimmed title, was skipped.
C2_Witness ==
    /\ task_fetch_failed /\ Len(pass_log) = 2
    /\ pass_log[1].ok /\ ~pass_log[2].called
    /\ pass_log[1].issue.url # pass_log[2].issue.url

\* The URL a task's content carries after the marker.
Embedded(task) == MarkerUrls(OrEmpty(task.content))

\* C3 as stated: whatever the fetches and creates answer, create_vibe_task
\* is never called for an issue whose URL is embedded after the marker in a
\* task the mapped project holds, and the board never holds two tasks of a
\* project for one issue URL.
C3_NeverForTaskOnBoard ==
    /\ pc = "creating" =>
         \A task \in BagToSet(board) :
            task.project_id = vibe_proj_id => Cur.url \notin Embedded(task)
    /\ \A t1 \in BagToSet(board) : \A t2 \in BagToSet(board) :
         (t1.project_id = t2.project_id /\ Embedded(t1) # {}
            /\ Embedded(t1) = Embedded(t2))
         => (t1 = t2 /\ CopiesIn(t1, board) = 1)

\* C3 amended: create_vibe_task is never called for an issue whose URL is
\* embedded after the marker in a task that the fetch of the pass returned,
\* nor for an issue with the URL of an issue created with success earlier in
\* the pass.
C3_NeverForTaskFetched ==
    pc = "creating" =>
      /\ \A i \in 1..Len(vibe_tasks) : Cur.url \notin Embedded(vibe_tasks[i])
      /\ \A j \in 1..Len(pass_log) :
           pass_log[j].ok => pass_log[j].issue.url # Cur.url

\* C3 witness: an issue whose URL alone (not its title) matches a fetched
\* task was skipped, and the next issue is being created.
C3_Witness ==
    /\ pc = "creating" /\ Len(pass_log) = 1 /\ ~pass_log[1].called
    /\ \E i \in 1..Len(vibe_tasks) :
         pass_log[1].issue.url \in Embedded(vibe_tasks[i])
    /\ Strip(pass_log[1].issue.title) \notin BuildTitles(vibe_tasks)

\* C4: when the task fetch of a mapping fails, run_sync goes on with the
\* pass with both sets empty: an issue is skipped only for matching an issue
\* created with success earlier in the pass, and a create is attempted for
\* every other issue.
C4_FetchFailureProceeds ==
    task_fetch_failed =>
      /\ pc \in {"issue_loop", "creating", "for"}
      /\ vibe_tasks = <<>>
      /\ existing_urls = {x.url : x \in CreatedBefore(Len(pass_log) + 1)}
      /\ existing_titles =
           {Strip(x.title) : x \in CreatedBefore(Len(pass_log) + 1)}
      /\ \A i \in 1..Len(pass_log) :
           pass_log[i].called <=>
             \A x \in CreatedBefore(i) : ~SameUrlOrTitle(x, pass_log[i].issue)
      /\ pc = "creating" =>
           \A x \in CreatedBefore(idx) : ~SameUrlOrTitle(x, Cur)

\* C4 witness: the fetch failed while the board held a task with I1's title,
\* and the pass called create_vibe_task for I1 and for a second issue.
C4_Witness ==
    /\ task_fetch_failed /\ pc = "for" /\ Len(pass_log) = 2
    /\ CopiesIn(LegacyTask, board) > 0
    /\ pass_log[1].issue = I1 /\ pass_log[1].called /\ pass_log[2].called

\* C5 as stated: once the flag is set no mapping is started and no
\* one-second sleep is begun.
C5_NothingStartsAfterFlag == sig.mappings = 0 /\ sig.ticks_begun = 0

\* C5 amended: the flag is read before each mapping and before each sleep
\* tick, and what starts after the flag is set is at most the one mapping or
\* the one sleep tick whose check had passed when the request arrived.
C5_OnlyTheCheckedOneStarts ==
    /\ sig.mappings + sig.ticks_begun <= 1
    /\ sig.mappings = 1 => sig.at = "log_sync"
    /\ sig.ticks_begun = 1 => sig.at = "sleep_call"

\* C5 witness: the request arrived inside the first of two mappings and
\* run_sync returned without starting the second.
C5_Witness ==
    /\ pc = "done" /\ sig.at \in {"fetch", "create", "issues"}
    /\ Len(projects) = 2 /\ passes = <<1>> /\ sig.mappings = 0

\* C6: a shutdown request that arrives inside a mapping does not cut it
\* short: when the pass ends every fetched issue has been handled, in order.
C6_PassCompletes ==
    /\ (pc = "for" /\ m > 1) =>
         /\ Len(pass_log) = Len(gh_issues)
         /\ \A i \in 1..Len(pass_log) : pass_log[i].issue = gh_issues[i]
    /\ pc \in {"after_for", "while", "sleep_check", "sleep_call", "sleeping",
               "done"} => pass_log = <<>>

\* C6 witness: the request arrived during a fetch, and the pass went on to
\* create both issues fetched.
C6_Witness ==
    /\ pc = "for" /\ m > 1 /\ sig.at = "fetch" /\ Len(pass_log) = 2
    /\ pass_log[1].called /\ pass_log[2].called

\* The positions 1..n in order.
UpTo(n) == [i \in 1..n |-> i]

\* C7 as stated: with once set, run_sync makes exactly one pass over every
\* mapping, in order, and returns without sleeping.
C7_OnceFullPass ==
    (once /\ pc = "done") => (passes = UpTo(Len(projects)) /\ n_ticks = 0)

\* C7 amended: with once set, run_sync never sleeps and starts each mapping
\* at most once, in order; when it returns with the flag unset it has made
\* exactly one pass over every mapping.
C7_OnceAtMostOnePass ==
    once =>
      /\ n_ticks = 0
      /\ cycle <= 1
      /\ Len(passes) <= Len(projects)
      /\ passes = UpTo(Len(passes))
      /\ (pc = "done" /\ ~shutdown_requested) => passes = UpTo(Len(projects))

\* C7 witness: a run with once set over two mappings has returned, no
\* shutdown requested.
C7_Witness ==
    /\ once /\ pc = "done" /\ ~shutdown_requested
    /\ Len(projects) = 2 /\ passes = <<1, 2>>

\* C8: a shutdown requested during the sleep phase lets at most one more
\* one-second tick elapse, starts no mapping and no further cycle.
C8_SleepStopsWithinOneTick ==
    sig.at \in {"sleep", "sleep_call"} =>
      /\ sig.ticks_ended <= 1
      /\ sig.mappings = 0
      /\ cycle = sig.cycle
      /\ pc \in {"sleep_check", "sleep_call", "sleeping", "while", "done"}

\* C8 witness: the request arrived during a sleep and run_sync returned
\* after that one tick, before the interval was over.
C8_Witness ==
    /\ pc = "done" /\ sig.at = "sleep" /\ sig.ticks_ended = 1
    /\ t < sync_interval

\* C9: fetch_github_issues never raises: whatever the tool invocation ends
\* in, it returns, and with an empty list on every failure.
C9_NeverRaises ==
    gh_outcome # NoResp =>
      /\ pc # "raised"
      /\ gh_outcome.kind \in GhFailures => gh_issues = <<>>

\* C10: fetch_vibe_tasks never raises; it returns the envelope's data list
\* for a 200 response with success=true and an empty list for every other
\* response, network error or timeout.
C10_FetchTasksResult ==
    task_resp # NoResp =>
      /\ pc = "issue_loop"
      /\ IF task_resp.kind = "http" /\ task_resp.status = 200
            /\ task_resp.success = "true"
         THEN vibe_tasks = (IF task_resp.has_data THEN task_resp.data ELSE <<>>)
         ELSE vibe_tasks = <<>>

\* C10 witness: a 200 response with success=false and a data list that is
\* not empty gave the empty list.
C10_Witness ==
    /\ task_resp # NoResp /\ task_resp.kind = "http" /\ task_resp.status = 200
    /\ task_resp.success = "false" /\ task_resp.has_data
    /\ task_resp.data # <<>> /\ vibe_tasks = <<>>

\* The last element of a sequence that is not empty.
Last(q) == q[Len(q)]

\* C11: create_vibe_task returns, whatever the POST ends in: True when the
\* response status is 200 or 201, False for every other status, for a
\* timeout and for a network error.
C11_CreateResult ==
    create_resp # NoResp =>
      /\ pc = "issue_loop"
      /\ pass_log # <<>> /\ Last(pass_log).called
      /\ Last(pass_log).ok <=>
           (create_resp.kind = "http" /\ create_resp.status \in {200, 201})

\* C11 witness: the POST timed out after the board had stored the task, and
\* create_vibe_task returned False.
C11_Witness ==
    /\ create_resp # NoResp /\ create_resp.kind = "timeout" /\ create_resp.stored
    /\ pc = "issue_loop" /\ ~Last(pass_log).ok

\* C12: while create_vibe_task is called for an issue, the title it was
\* given is the issue's title and the content is the issue's body (the
\* empty text for a null body), a blank line, the marker and the issue's
\* URL right after it.
C12_ContentEmbedsUrl ==
    pc = "creating" =>
      /\ request.json.title = Cur.title
      /\ request.json.content =
           (IF Cur.body = None THEN <<>> ELSE Cur.body)
             \o <<"nl", "nl", "OI:", "sp">> \o Cur.url

\* C12 witness: create_vibe_task is called for an issue with a null body.
C12_Witness == pc = "creating" /\ Cur.body = None

\* C13: the requests run_sync makes are GET and POST only, and every task
\* the board holds stays on it, in as many copies, at every step.
C13_BoardOnlyGrows ==
    /\ [](request.method \in {"none", "GET", "POST"})
    /\ [][\A task \in BagToSet(board) :
            CopiesIn(task, board') >= CopiesIn(task, board)]_vars

\* C13 witness: two cycles have run, tasks were created, and the task the
\* board held with I1's URL is still there.
C13_Witness ==
    /\ pc = "done" /\ cycle = 2
    /\ CopiesIn(MarkedTask, board) = 1 /\ CopiesIn(OtherTask, board) = 1
    /\ BagCardinality(board) > 3

\* C14: no failure of a collaborator call ends run_sync: after an issue
\* fetch, a task fetch or a create has answered, whatever it met, run_sync
\* is at the next step of the pass (the task fetch, the issue loop).
C14_FailuresNonFatal ==
    /\ pc # "raised"
    /\ gh_outcome # NoResp => pc = "fetching_tasks"
    /\ task_resp # NoResp => pc = "issue_loop"
    /\ create_resp # NoResp => pc = "issue_loop"

\* The fetch_vibe_tasks calls of the current pass.
TaskFetches == {i \in 1..Len(calls) : calls[i].fn = "fetch_vibe_tasks"}

C16_PayloadFields ==
    pc = "creating" =>
      /\ DOMAIN request.json = {"title", "project_id", "description"}
      /\ request.json.description = TaskContent(Cur)

\* The positions of gh_issues create_vibe_task was called for in the pass.
CreatePositions == {calls[i].arg : i \in {k \in 1..Len(calls) : k > 2}}

\* C17: in a mapping pass the calls are the issue fetch, then the task
\* fetch, then the creates, each made once the one before has returned and
\* the creates in the order of the fetched list; a pass has no call under
\* way when the loop moves to the next mapping; and every cycle visits the
\* mappings in configuration order.
C17_SequentialInOrder ==
    /\ \A i \in 1..Len(calls) :
         /\ calls[i].mapping = Last(passes)
         /\ i < Len(calls) => calls[i].returned
         /\ i = 1 => /\ calls[i].fn = "fetch_github_issues"
                     /\ calls[i].arg = projects[Last(passes)].github_repo
         /\ i = 2 => /\ calls[i].fn = "fetch_vibe_tasks"
                     /\ calls[i].arg = projects[Last(passes)].vibe_project_id
         /\ i > 2 => calls[i].fn = "create_vibe_task"
    /\ \A i \in 3..Len(calls) : \A j \in 3..Len(calls) :
         i < j => calls[i].arg < calls[j].arg
    /\ CreatePositions =
         {k \in 1..Len(pass_log) : pass_log[k].called}
           \cup (IF pc = "creating" THEN {idx} ELSE {})
    /\ pc \in {"fetching_issues", "fetching_tasks", "creating"} =>
         (calls # <<>> /\ ~Last(calls).returned)
    /\ pc = "for" =>
         (request = NoRequest /\ \A i \in 1..Len(calls) : calls[i].returned)
    /\ \A i \in 1..Len(passes) : passes[i] = ((i - 1) % Len(projects)) + 1
    /\ Len(passes) <= cycle * Len(projects)
    /\ Len(passes) >= (cycle - 1) * Len(projects)

\* C17 witness: the second mapping of the second cycle has fetched twice and
\* created the two issues of its list, the first before the second.
C17_Witness ==
    /\ pc = "for" /\ passes = <<1, 2, 1, 2>> /\ Len(calls) = 4
    /\ calls[3].arg = 1 /\ calls[4].arg = 2

\* C18: in a mapping pass create_vibe_task is called at most once for each
\* position of the fetched list; a create that failed adds nothing to the
\* two sets (they hold what the fetched tasks gave and what the creates
\* that succeeded added); and in a later cycle the issue whose create
\* failed, when it is fetched again and matches neither set, gets a
\* create_vibe_task call again.
C18_NoRetryInPass ==
    /\ Len(pass_log) <= Len(gh_issues)
    /\ \A i \in 1..Len(pass_log) : pass_log[i].issue = gh_issues[i]
    /\ Len(calls) > 2 => Cardinality(CreatePositions) = Len(calls) - 2
    /\ existing_urls = UrlsAt(Len(pass_log) + 1)
    /\ existing_titles = TitlesAt(Len(pass_log) + 1)
    /\ (first_failed # NoFailure /\ cycle > first_failed.cycle
          /\ pc \in {"issue_loop", "creating"} /\ m = first_failed.mapping) =>
         /\ \A i \in 1..Len(pass_log) :
              (pass_log[i].issue = first_failed.issue /\ NewAt(gh_issues[i], i))
              => pass_log[i].called
         /\ (pc = "issue_loop" /\ idx <= Len(gh_issues)
               /\ Cur = first_failed.issue /\ NewAt(Cur, idx))
              => ENABLED (IssueLoop /\ pc' = "creating")

\* C18 witness: the create for an issue failed in one cycle and left no
\* task, and in the next cycle create_vibe_task is called for it again.
C18_Witness ==
    /\ first_failed # NoFailure /\ cycle = first_failed.cycle + 1
    /\ pc = "creating" /\ Cur = first_failed.issue
    /\ m = first_failed.mapping

\* The positions where the marker occurs in a text.
MarkerPositions(s) ==
    {i \in 0..(Len(s) - Len(Marker)) : Slice(s, i, i + Len(Marker)) = Marker}

\* The text from the end of the marker at position p up to the next line
\* break or the end of the text, trimmed.
LineAfter(s, p) ==
    LET from == p + Len(Marker)
        ends == {i \in from..(Len(s) - 1) : s[i + 1] = "nl"}
        to   == IF ends = {} THEN Len(s)
                ELSE CHOOSE i \in ends : \A j \in ends : i <= j
    IN  Strip(Slice(s, from, to))

\* A URL: a host and a path with no whitespace in it.
IsUrl(u) ==
    /\ Len(u) >= 2 /\ u[1] \in {"GH", "GE"}
    /\ \A i \in 1..Len(u) : ~IsSpace(u[i])

\* The URLs that follow a marker in the content of a task.
UrlsAfterMarker(task) ==
    LET content == OrEmpty(task.content)
    IN  {u \in {LineAfter(content, p) : p \in MarkerPositions(content)} : IsUrl(u)}

\* A task with no marker and no github.com URL in its content.
Plain(task) ==
    LET content == OrEmpty(task.content)
    IN  /\ MarkerPositions(content) = {}
        /\ \A i \in 1..Len(content) : content[i] # "GH"

\* C19: once the sets are built, the URL that follows the marker in the
\* content of a fetched task is in the URL set, and a list of tasks with no
\* marker and no github.com URL leaves the URL set empty.
C19_MarkerUrlExtracted ==
    pc \in {"classify", "classified"} =>
      /\ \A k \in 1..Len(vibe_tasks) :
           UrlsAfterMarker(vibe_tasks[k]) \subseteq existing_urls
      /\ (\A k \in 1..Len(vibe_tasks) : Plain(vibe_tasks[k])) => existing_urls = {}

\* C20: the detector run on the same issues and the same tasks, the tasks
\* in the same or in another order, classifies every issue the same way.
C20_SameClassification ==
    /\ \A r \in 1..Len(verdicts) :
         /\ Len(verdicts[r]) = Len(gh_issues)
         /\ verdicts[r] = verdicts[1]
    /\ pc = "classified" => Len(verdicts) = 2

\* C20 witness: two runs over two tasks in opposite orders are done, with
\* one issue a duplicate and another not.
C20_Witness ==
    /\ pc = "classified" /\ Len(task_orders[1]) = 2
    /\ task_orders[1] # task_orders[2]
    /\ Len(verdicts[2]) = 2 /\ verdicts[2][1] /\ ~verdicts[2][2]

\* The issues create_vibe_task was called for in the pass, in order.
CalledFor ==
    LET called == SelectSeq(pass_log, LAMBDA e : e.called)
    IN  [i \in 1..Len(called) |-> called[i].issue]

\* C21: dry_run sends no request but reads, and when run_sync has made a
\* pass over the issues and the tasks dry_run fetched, every create
\* succeeding, the issues it called create_vibe_task for are the issues
\* dry_run listed.
C21_DryRunListsWhatIsCreated ==
    /\ pc \in {"dry_fetching_issues", "dry_fetching_tasks"} =>
         request.method \in {"none", "GET"}
    /\ (/\ pc = "for" /\ m > 1
        /\ gh_issues = dry.issues /\ vibe_tasks = dry.tasks
        /\ \A i \in 1..Len(pass_log) : pass_log[i].called => pass_log[i].ok)
       => CalledFor = dry.new_issues

\* C22: a signal delivered while run_sync runs sets shutdown_requested, no
\* step sets it back to false, and in every run in which no call raises,
\* run_sync returns after the flag is set.
C22_FlagLeadsToReturn ==
    /\ [][(sig.at = "none" /\ sig'.at # "none") => shutdown_requested']_vars
    /\ [][shutdown_requested => shutdown_requested']_vars
    /\ [](pc # "raised") => (shutdown_requested ~> pc = "done")

\* C22 witness: the signal arrived during a create, in a run without
\* --once, and run_sync has returned.
C22_Witness ==
    /\ pc = "done" /\ shutdown_requested /\ ~once /\ sig.at = "create"

\* The task the board keeps when the create for an issue is stored.
TaskOf(issue) ==
    [title |-> issue.title, content |-> TaskContent(issue),
     project_id |-> vibe_proj_id]

\* C23: when the pass before over the mapping got its tasks from
\* fetch_vibe_tasks and every create_vibe_task call of it returned True, and
\* this pass fetched the same issue list and got the board's tasks, this
\* pass calls create_vibe_task for no issue.
C23_SecondPassCreatesNothing ==
    (/\ pc \in {"issue_loop", "creating"}
     /\ last_pass.done /\ last_pass.clean
     /\ gh_issues = last_pass.issues
     /\ ~task_fetch_failed)
    => /\ pc # "creating"
       /\ \A i \in 1..Len(pass_log) : ~pass_log[i].called

\* C23 witness: the pass before created a task for the second of two
\* issues, and this pass over the same two issues has reached the end of
\* the list.
C23_Witness ==
    /\ pc = "issue_loop" /\ idx > Len(gh_issues) /\ Len(gh_issues) = 2
    /\ last_pass.done /\ last_pass.clean /\ gh_issues = last_pass.issues
    /\ ~task_fetch_failed
    /\ CopiesIn(TaskOf(gh_issues[2]), board) > 0

\* An issue of another host than github.com whose body is the text
\* "Original Issue: a": the content run_sync builds for it is D2's.
I5 == [number |-> 3, title |-> <<"b">>, body |-> <<"OI:", "sp", "a">>,
       url |-> <<"GE", "1">>]

\* C24: once the sets are built from the fetched tasks, the URL of every
\* issue whose task content, as run_sync builds it, is the content of one
\* of these tasks is in the URL set, whatever the issue's body.
C24_MarkerRoundTrip ==
    pc \in {"classify", "classified"} =>
      \A k \in 1..Len(vibe_tasks) : \A issue \in Issues \cup {I5} :
         vibe_tasks[k].content = TaskContent(issue) => issue.url \in existing_urls

====
